---- MODULE Spec2Model ----
(***************************************************************************)
(* Model of pkg/machineproviders/providers/openshift/machine/v1beta1/      *)
(* providerconfig/providerconfig.go: the ProviderConfig dispatcher         *)
(* (NewProviderConfig, getPlatformType) and the providerConfig             *)
(* implementation of the ProviderConfig interface.                         *)
(*                                                                         *)
(* Go values are modelled as follows.                                      *)
(*   - an interface value (ProviderConfig, FailureDomain) or a pointer is  *)
(*     a sequence of length 0 (nil) or 1 (the value it holds);             *)
(*   - an error is its wrap chain, outermost message first; nil is <<>>;   *)
(*   - a []byte / RawExtension payload is a tuple of its fields in wire    *)
(*     order; the empty payload is <<>>.                                   *)
(***************************************************************************)
EXTENDS Naturals, Sequences, FiniteSets

\* Largest number of InjectFailureDomain results the caller keeps.
MaxResults == 2

----------------------------------------------------------------------------
\* Values

\* configv1.PlatformType values used by the model; "" is the zero value.
AWSPlatformType == "AWS"
AzurePlatformType == "Azure"
NoPlatformType == ""
PlatformTypes == {NoPlatformType, AWSPlatformType, AzurePlatformType}

\* The cases of the switch in NewProviderConfig.
SupportedPlatformTypes == {AWSPlatformType}

\* Error sentinels.
errMismatchedPlatformTypes == "mistmatched platform types"
errUnsupportedPlatformType == "unsupported platform type"
errMalformedTemplate == "malformed template"

NoError == <<>>
\* errors.Is over a wrap chain.
ErrorsIs(err, target) == \E i \in DOMAIN err : err[i] = target
\* fmt.Errorf("<msg>: %w", err): a new error wrapping err.
Wrap(msg, err) == <<msg>> \o err

Zones == {"us-east-1a", "us-east-1b"}
InstanceTypes == {"m5.large", "m5.xlarge"}
InstanceProfiles == {"profile-a", "profile-b"}
Kinds == {"AWSMachineProviderConfig", "AzureMachineProviderSpec"}

\* The typed AWS provider spec held in providerConfig.aws.
AWSProviderConfigs ==
    [zone : Zones, instanceType : InstanceTypes, iamInstanceProfile : InstanceProfiles]

\* providerConfig struct values.
ProviderConfigs == [platformType : PlatformTypes, aws : AWSProviderConfigs]

\* failuredomain.FailureDomain values (non-nil).
FailureDomains == [platform : {AWSPlatformType, AzurePlatformType}, zone : Zones]

\* tmpl.Spec.ProviderSpec.Value: <<kind, zone, instanceType, iamInstanceProfile>>,
\* or the empty payload.
RawPayloads ==
    {<<>>} \cup {<<k, z, it, ip>> : k \in Kinds, z \in Zones,
                                     it \in InstanceTypes, ip \in InstanceProfiles}

\* machinev1.OpenShiftMachineV1Beta1MachineTemplate: the structured
\* failure-domain platform and the raw providerSpec payload.
MachineTemplates == [fdPlatform : PlatformTypes, value : RawPayloads]

----------------------------------------------------------------------------
\* Functions of providerconfig.go

\* getPlatformType: returns ("", nil) for every template.
getPlatformType(tmpl) == [platformType |-> NoPlatformType, err |-> NoError]

\* newAWSProviderConfig: parses the raw payload into an AWS providerConfig.
newAWSProviderConfig(raw) ==
    IF Len(raw) = 4
    THEN [cfg |-> <<[platformType |-> AWSPlatformType,
                     aws |-> [zone |-> raw[2], instanceType |-> raw[3],
                              iamInstanceProfile |-> raw[4]]]>>,
          err |-> NoError]
    ELSE [cfg |-> <<>>, err |-> <<errMalformedTemplate>>]

\* NewProviderConfig with a default case that falls back to the AWS
\* implementation instead of returning an error.
NewProviderConfigDefaulting(tmpl) ==
    LET r == getPlatformType(tmpl) IN
    IF r.err # NoError
    THEN [cfg |-> <<>>, err |-> Wrap("could not determine platform type", r.err),
          constructed |-> FALSE]
    ELSE [cfg |-> <<[platformType |-> AWSPlatformType,
                     aws |-> [zone |-> "us-east-1a", instanceType |-> "m5.large",
                              iamInstanceProfile |-> "profile-a"]]>>,
          err |-> NoError, constructed |-> TRUE]

\* NewProviderConfig whose default case builds a config and returns it
\* together with the error.
NewProviderConfigLeaking(tmpl) ==
    LET r == getPlatformType(tmpl) IN
    IF r.err # NoError
    THEN [cfg |-> <<>>, err |-> Wrap("could not determine platform type", r.err),
          constructed |-> FALSE]
    ELSE [cfg |-> <<[platformType |-> r.platformType,
                     aws |-> [zone |-> "us-east-1a", instanceType |-> "m5.large",
                              iamInstanceProfile |-> "profile-a"]]>>,
          err |-> <<errUnsupportedPlatformType, r.platformType>>,
          constructed |-> TRUE]

\* NewProviderConfig. constructed records whether a platform constructor
\* (newAWSProviderConfig) was invoked on the path taken.
NewProviderConfig(tmpl) ==
    LET r == getPlatformType(tmpl) IN
    IF r.err # NoError
    THEN [cfg |-> <<>>, err |-> Wrap("could not determine platform type", r.err),
          constructed |-> FALSE]
    ELSE IF r.platformType = AWSPlatformType
    THEN LET c == newAWSProviderConfig(tmpl.value) IN
         [cfg |-> c.cfg, err |-> c.err, constructed |-> TRUE]
    ELSE [cfg |-> <<>>, err |-> <<errUnsupportedPlatformType, r.platformType>>,
          constructed |-> FALSE]

\* InjectFailureDomain with a pointer receiver that retags the receiver for
\* the failure domain's platform.
InjectFailureDomainMutating(p, fd) ==
    LET q == [p EXCEPT !.platformType = fd.platform] IN
    [cfg |-> <<q>>, err |-> NoError, recv |-> q]

\* InjectFailureDomain whose copy takes the failure domain's platform.
InjectFailureDomainRetagging(p, fd) ==
    [cfg |-> <<[p EXCEPT !.platformType = fd.platform]>>, err |-> NoError, recv |-> p]

\* providerConfig.InjectFailureDomain: returns (p, nil). The receiver is
\* passed by value, so the caller's value after the call (recv) is p.
InjectFailureDomain(p, fd) == [cfg |-> <<p>>, err |-> NoError, recv |-> p]

\* providerConfig.ExtractFailureDomain: returns nil.
ExtractFailureDomain(p) == <<>>

\* providerConfig.Equal: returns (false, nil).
Equal(p, other) == [equal |-> FALSE, err |-> NoError]

\* providerConfig.RawConfig: returns ([]byte{}, nil).
RawConfig(p) == [bytes |-> <<>>, err |-> NoError]

\* providerConfig.Type.
Type(p) == p.platformType

\* providerConfig.AWS.
AWS(p) == p.aws

----------------------------------------------------------------------------
\* State

VARIABLES
    p,        \* the providerConfig value the caller holds
    selected, \* the platform type p was constructed with
    results,  \* [fd, cfg]: configs returned by InjectFailureDomain on p, oldest first
    last      \* the most recent call: its arguments and return values

vars == <<p, selected, results, last>>

NoCall ==
    [op |-> "none", tmpl |-> <<>>, recv |-> <<>>, fd |-> <<>>, other |-> <<>>,
     cfg |-> <<>>, err |-> NoError, platformType |-> NoPlatformType,
     constructed |-> FALSE, equal |-> FALSE, bytes |-> <<>>, fdOut |-> <<>>,
     aws |-> <<>>]

Init ==
    /\ p \in ProviderConfigs
    /\ selected = p.platformType
    /\ results = <<>>
    /\ last = NoCall

\* A caller builds a config from a template and, when one is returned, keeps
\* it in place of p.
CallNewProviderConfig ==
    \E tmpl \in MachineTemplates :
        LET r == NewProviderConfig(tmpl)
            pt == getPlatformType(tmpl) IN
        /\ last' = [NoCall EXCEPT !.op = "NewProviderConfig", !.tmpl = <<tmpl>>,
                                  !.cfg = r.cfg, !.err = r.err,
                                  !.platformType = pt.platformType,
                                  !.constructed = r.constructed]
        /\ IF r.cfg # <<>>
           THEN /\ p' = r.cfg[1]
                /\ selected' = pt.platformType
                /\ results' = <<>>
           ELSE UNCHANGED <<p, selected, results>>

CallInjectFailureDomain ==
    \E fd \in FailureDomains :
        LET r == InjectFailureDomain(p, fd) IN
        /\ Len(results) < MaxResults
        /\ p' = r.recv
        /\ results' = IF r.cfg # <<>>
                       THEN Append(results, [fd |-> fd, cfg |-> r.cfg[1]])
                       ELSE results
        /\ last' = [NoCall EXCEPT !.op = "InjectFailureDomain", !.recv = <<p>>,
                                  !.fd = <<fd>>, !.cfg = r.cfg, !.err = r.err]
        /\ UNCHANGED selected

CallExtractFailureDomain ==
    /\ last' = [NoCall EXCEPT !.op = "ExtractFailureDomain", !.recv = <<p>>,
                              !.fdOut = ExtractFailureDomain(p)]
    /\ UNCHANGED <<p, selected, results>>

CallEqual ==
    \E other \in ProviderConfigs :
        LET r == Equal(p, other) IN
        /\ last' = [NoCall EXCEPT !.op = "Equal", !.recv = <<p>>,
                                  !.other = <<other>>, !.equal = r.equal,
                                  !.err = r.err]
        /\ UNCHANGED <<p, selected, results>>

CallRawConfig ==
    LET r == RawConfig(p) IN
    /\ last' = [NoCall EXCEPT !.op = "RawConfig", !.recv = <<p>>,
                              !.bytes = r.bytes, !.err = r.err]
    /\ UNCHANGED <<p, selected, results>>

CallType ==
    /\ last' = [NoCall EXCEPT !.op = "Type", !.recv = <<p>>,
                              !.platformType = Type(p)]
    /\ UNCHANGED <<p, selected, results>>

CallAWS ==
    /\ last' = [NoCall EXCEPT !.op = "AWS", !.recv = <<p>>, !.aws = <<AWS(p)>>]
    /\ UNCHANGED <<p, selected, results>>

Next ==
    \/ CallNewProviderConfig
    \/ CallInjectFailureDomain
    \/ CallExtractFailureDomain
    \/ CallEqual
    \/ CallRawConfig
    \/ CallType
    \/ CallAWS

Spec == Init /\ [][Next]_vars

----------------------------------------------------------------------------
\* Properties

\* A template that describes an AWS machine: the structured platform, when
\* present, is AWS, and the payload is a well-formed AWS provider spec.
ValidAWSTemplate(t) ==
    /\ t.fdPlatform \in {NoPlatformType, AWSPlatformType}
    /\ Len(t.value) = 4
    /\ t.value[1] = "AWSMachineProviderConfig"

\* The round trip of a template through NewProviderConfig, RawConfig,
\* NewProviderConfig and Equal.
RoundTrips(t) ==
    LET a == NewProviderConfig(t) IN
    /\ a.err = NoError
    /\ a.cfg # <<>>
    /\ LET raw == RawConfig(a.cfg[1]) IN
       /\ raw.err = NoError
       /\ LET b == NewProviderConfig([t EXCEPT !.value = raw.bytes]) IN
          /\ b.err = NoError
          /\ b.cfg # <<>>
          /\ Equal(a.cfg[1], b.cfg[1]) = [equal |-> TRUE, err |-> NoError]

\* C1: ExtractFailureDomain is the left inverse of InjectFailureDomain: when
\* a failure domain of the receiver's platform is injected, the call succeeds
\* and extracting from the returned config yields that failure domain.
C1_LeftInverse ==
    (/\ last.op = "InjectFailureDomain"
     /\ last.fd[1].platform = Type(last.recv[1]))
    => /\ last.err = NoError
       /\ last.cfg # <<>>
       /\ ExtractFailureDomain(last.cfg[1]) = last.fd

\* C2: injecting a failure domain of another platform, and comparing with a
\* config of another platform, return the MismatchedPlatformTypes error and
\* no config or boolean answer.
C2_CrossPlatformRejection ==
    /\ (/\ last.op = "InjectFailureDomain"
        /\ last.fd[1].platform # Type(last.recv[1]))
       => /\ ErrorsIs(last.err, errMismatchedPlatformTypes)
          /\ last.cfg = <<>>
    /\ (/\ last.op = "Equal"
        /\ Type(last.other[1]) # Type(last.recv[1]))
       => ErrorsIs(last.err, errMismatchedPlatformTypes)

\* C3: for a template of a supported platform (AWS), NewProviderConfig
\* returns a config and no error, and the config's Type() is that platform.
C3_DispatchSupported ==
    (/\ last.op = "NewProviderConfig"
     /\ ValidAWSTemplate(last.tmpl[1]))
    => /\ last.err = NoError
       /\ last.cfg # <<>>
       /\ Type(last.cfg[1]) = AWSPlatformType

\* C4: when the platform type determined for the template is outside the
\* supported set, NewProviderConfig returns an error wrapping
\* UnsupportedPlatformType and no config.
C4_DispatchUnsupported ==
    (/\ last.op = "NewProviderConfig"
     /\ last.platformType \notin SupportedPlatformTypes)
    => /\ ErrorsIs(last.err, errUnsupportedPlatformType)
       /\ last.cfg = <<>>

C4_Witness ==
    /\ last.op = "NewProviderConfig"
    /\ last.platformType \notin SupportedPlatformTypes
    /\ ErrorsIs(last.err, errUnsupportedPlatformType)

\* C5: for a valid template of a supported platform, the payload of
\* NewProviderConfig(t).RawConfig() parses again into a config that the
\* original reports Equal (true, nil).
C5_RoundTrip ==
    (/\ last.op = "NewProviderConfig"
     /\ ValidAWSTemplate(last.tmpl[1]))
    => RoundTrips(last.tmpl[1])

\* C6: InjectFailureDomain leaves its receiver as it was: after the call the
\* receiver's ExtractFailureDomain(), Type() and RawConfig() return what they
\* returned before, and the results of earlier calls are not changed by it.
C6_ReceiverImmutable ==
    [][last'.op = "InjectFailureDomain"
       => /\ ExtractFailureDomain(p') = ExtractFailureDomain(p)
          /\ Type(p') = Type(p)
          /\ RawConfig(p') = RawConfig(p)
          /\ Len(results') >= Len(results)
          /\ SubSeq(results', 1, Len(results)) = results]_vars

C6_Witness ==
    /\ last.op = "InjectFailureDomain"
    /\ Len(results) >= 2
    /\ results[1].fd # results[2].fd
    /\ last.recv = <<p>>

\* C7: Equal of two AWS configs that differ only in the instance profile (an
\* ignored field) is (true, nil); Equal of two that differ in the instance
\* type is (false, nil).
C7_SemanticEqual ==
    (/\ last.op = "Equal"
     /\ Type(last.recv[1]) = AWSPlatformType
     /\ Type(last.other[1]) = AWSPlatformType)
    => LET a == AWS(last.recv[1])
           b == AWS(last.other[1]) IN
       /\ (a.zone = b.zone /\ a.instanceType = b.instanceType)
          => (last.equal = TRUE /\ last.err = NoError)
       /\ (a.instanceType # b.instanceType)
          => (last.equal = FALSE /\ last.err = NoError)

\* C8: Type() of a config is the platform type it was constructed with: it is
\* the platform the dispatcher selected for a config NewProviderConfig
\* returned, and it is the same on the receiver and on every config returned
\* by InjectFailureDomain after any sequence of calls.
C8_TypeImmutable ==
    /\ Type(p) = selected
    /\ \A i \in DOMAIN results : Type(results[i].cfg) = selected
    /\ (last.op = "NewProviderConfig" /\ last.cfg # <<>>)
       => Type(last.cfg[1]) = last.platformType
    /\ (last.op = "InjectFailureDomain" /\ last.cfg # <<>>)
       => Type(last.cfg[1]) = selected
    /\ (last.op = "Type") => last.platformType = selected

C8_Witness ==
    /\ last.op = "Type"
    /\ Len(results) >= 1
    /\ results[1].fd.platform # selected
    /\ selected = AWSPlatformType

\* C9: getPlatformType returns the template's explicit failure-domain
\* platform when there is one, and otherwise the platform of the providerSpec
\* kind.
C9_TwoStepDetection ==
    (last.op = "NewProviderConfig")
    => LET t == last.tmpl[1] IN
       /\ (t.fdPlatform # NoPlatformType) => last.platformType = t.fdPlatform
       /\ (/\ t.fdPlatform = NoPlatformType
           /\ Len(t.value) = 4
           /\ t.value[1] = "AWSMachineProviderConfig")
          => last.platformType = AWSPlatformType

\* C10: when NewProviderConfig returns an error, or the platform type is not
\* in its switch, it returns a nil config with a non-nil error and calls no
\* platform constructor.
C10_NoConfigWithError ==
    (last.op = "NewProviderConfig")
    => /\ (last.err # NoError) => last.cfg = <<>>
       /\ (last.platformType \notin SupportedPlatformTypes)
          => /\ last.err # NoError
             /\ last.cfg = <<>>
             /\ last.constructed = FALSE

C10_Witness ==
    /\ last.op = "NewProviderConfig"
    /\ last.err # NoError
    /\ last.cfg = <<>>
    /\ last.constructed = FALSE
    /\ ValidAWSTemplate(last.tmpl[1])

====
